---- MODULE Spec2Model ----
(***************************************************************************)
(* A model of fireflare (src/src/index.ts): verification of Firebase id    *)
(* tokens inside a Cloudflare worker.  auth decodes the compact token,     *)
(* checks the standard claims, the header and the caller's predicates,     *)
(* looks the signing key up in a Workers KV cache (fetching Google's JWK   *)
(* set on a miss) and verifies the RS256 signature.                        *)
(*                                                                         *)
(* Conventions of the model                                                *)
(*  - a JavaScript value that a claim or a kid may hold is a record        *)
(*    [t, s, n]: t is the typeof tag, s the string, n the number;          *)
(*  - every number is kept in thousandths, so that a clock in milliseconds *)
(*    and a NumericDate in (possibly fractional) seconds compare exactly;  *)
(*  - a token segment is the record of what decodeBase64 and JSON.parse    *)
(*    look at: its length modulo 4, whether atob accepts its characters,   *)
(*    whether its bytes are UTF-8, a variant number that tells apart two   *)
(*    texts that decode to the same content, and the decoded content;      *)
(*  - a signature is symbolic: the private key that made it and the pair   *)
(*    of raw segments it was made over.                                    *)
(***************************************************************************)
EXTENDS Integers, Sequences, FiniteSets, TLC

VARIABLES
  call,       \* per invocation of auth: position, inputs, locals, result
  cache,      \* the Workers KV namespace handed to auth: key -> entry
  now,        \* the worker's clock, in milliseconds (new Date().getTime())
  published,  \* which key set Google's endpoint serves at the moment
  fill,       \* history: the lookup that stored the current cache entry
  pin,        \* input of a direct predicate evaluation
  pout        \* its outcome

vars == <<call, cache, now, published, fill, pin, pout>>

----------------------------------------------------------------------------
(* Bounds of the model *)

\* how many caller-supplied predicates a call may pass
MaxChecks == 1
\* how many times the clock advances
MaxTicks == 1
\* the clock's step, in milliseconds
TickMs == 500

\* the invocations of auth that may be in flight
Procs == {1, 2}

----------------------------------------------------------------------------
(* JavaScript values *)

Undef == [t |-> "undefined", s |-> "", n |-> 0]
Str(x) == [t |-> "string", s |-> x, n |-> 0]
\* x in thousandths: Num(1500) is the number 1.5
Num(x) == [t |-> "number", s |-> "", n |-> x]

\* new String(x): typeof gives "object"
StrObj(x) == [t |-> "object", s |-> x, n |-> 0]

\* the largest number of thousandths a Num holds: the largest integer of
\* the model checker
MaxThousandths == 2147483647

\* A number is a double: Num(x) is the double nearest to x / 1000. The
\* outcome of ToNumber is NaN, Finite(n) for the double nearest to n / 1000,
\* or Outside for a double that is the nearest one to no whole number of
\* thousandths up to MaxThousandths (Infinity among them) and so is equal
\* to no number of the model. A decimal literal is rounded to the nearest
\* double, ties to the even mantissa, as the engine rounds it; the
\* comparisons are made on decimal digits and are exact for any number of
\* digits
NaN == [k |-> "NaN", n |-> 0]
Finite(n) == [k |-> "number", n |-> n]
Outside == [k |-> "outside", n |-> 0]

CharAt(s, i) == IF i >= 1 /\ i <= Len(s) THEN SubSeq(s, i, i) ELSE ""

\* A string holds its text as the decoding of the module's text gives it:
\* as characters (UTF-8), as the bytes of their UTF-8 form each kept apart
\* (a one-byte decoding such as ISO-8859-1), or, where the decoding reads
\* every byte above 7F as one and the same character (US-ASCII), with all
\* its text beyond ASCII lost: U+00E9 and U+20AC then start with the same
\* character, and so does every literal of this module. In such a string
\* every position beyond ASCII holds the replacement character U+FFFD,
\* which is no white space: ToNumber of the string that is held is NaN
\* whatever the text was before it was decoded
TextLost == SubSeq("é", 1, 1) = SubSeq("€", 1, 1)

\* White space is matched as a whole sequence, of one character or of up to
\* three bytes.
\* The white space that no literal can hold as a character: the space
\* separators U+2000 to U+200A, U+202F, U+205F and U+3000 and the line and
\* paragraph separators U+2028 and U+2029. No string of characters has them;
\* a string of bytes has them as E2 80 80 to E2 80 8A, E2 80 AF, E2 81 9F,
\* E3 80 80, E2 80 A8 and E2 80 A9. The bytes are taken from the UTF-8 forms
\* of other characters: E2 and E3 lead those of `lead`, and 80 to 8A, 9F,
\* A8, A9 and AF end those of `last`
SeparatorBytes ==
  LET lead == "€む"
      last == "ÀÁÂÃÄÅÆÇÈÉÊßèéï"
      e2 == SubSeq(lead, 1, 1)
      e3 == SubSeq(lead, 4, 4)
      b(k) == SubSeq(last, 2 * k, 2 * k)
  IN  IF TextLost \/ Len(lead) # 6 THEN {}
      ELSE {e2 \o b(1) \o b(k) : k \in (1..11) \cup {13, 14, 15}}
           \cup {e2 \o b(2) \o b(12), e3 \o b(1) \o b(1)}

\* WhiteSpace and LineTerminator: tab, line feed, vertical tab, form feed,
\* carriage return, space; no-break space, U+1680 and U+FEFF, as characters
\* or as their bytes; and the separators above
IsSpace(c) ==
  \/ c \in {" ", "\t", "\n", "\r", "\f", ""}
  \/ ~TextLost /\ c \in {" ", " ", "﻿"}
  \/ c \in SeparatorBytes

\* s is white space from position i to position j: each position lies in
\* a white space that lies between the two (no white space starts inside
\* another one)
AllSpace(s, i, j) ==
  \A m \in i..j :
    \E a \in (m - 2)..m, n \in 1..3 :
      a >= i /\ a + n - 1 >= m /\ a + n - 1 <= j /\ IsSpace(SubSeq(s, a, a + n - 1))

\* the string without the longest white space it starts with, and without
\* the longest it ends with
TrimStart(s) ==
  SubSeq(s, CHOOSE i \in 1..(Len(s) + 1) :
              /\ AllSpace(s, 1, i - 1)
              /\ \A j \in (i + 1)..(Len(s) + 1) : ~AllSpace(s, 1, j - 1),
         Len(s))
TrimEnd(s) ==
  SubSeq(s, 1, CHOOSE i \in 0..Len(s) :
                 /\ AllSpace(s, i + 1, Len(s))
                 /\ \A j \in 0..(i - 1) : ~AllSpace(s, j + 1, Len(s)))

\* the value of a digit character, 99 for any other character
DigitValue(c) ==
  CASE c = "0" -> 0 [] c = "1" -> 1 [] c = "2" -> 2 [] c = "3" -> 3
    [] c = "4" -> 4 [] c = "5" -> 5 [] c = "6" -> 6 [] c = "7" -> 7
    [] c = "8" -> 8 [] c = "9" -> 9
    [] c \in {"a", "A"} -> 10 [] c \in {"b", "B"} -> 11 [] c \in {"c", "C"} -> 12
    [] c \in {"d", "D"} -> 13 [] c \in {"e", "E"} -> 14 [] c \in {"f", "F"} -> 15
    [] OTHER -> 99

\* where the run of digits of the radix that starts at position i ends
RunEnd(s, i, radix) ==
  IF i > Len(s) THEN i
  ELSE CHOOSE j \in i..(Len(s) + 1) :
         /\ j = Len(s) + 1 \/ DigitValue(CharAt(s, j)) >= radix
         /\ \A m \in i..(j - 1) : DigitValue(CharAt(s, m)) < radix

\* the digits at positions i to j - 1, as a sequence of their values
Digits(s, i, j) ==
  SubSeq([m \in 1..(j - i) |-> DigitValue(CharAt(s, i + m - 1))], 1, j - i)

\* the positions of the first and the last digit that is not 0
FirstNonZero(d) ==
  CHOOSE i \in 1..(Len(d) + 1) :
    /\ i = Len(d) + 1 \/ d[i] # 0
    /\ \A j \in 1..(i - 1) : d[j] = 0
LastNonZero(d) ==
  CHOOSE i \in 0..Len(d) :
    /\ i = 0 \/ d[i] # 0
    /\ \A j \in (i + 1)..Len(d) : d[j] = 0
WithoutLeadingZeros(d) == SubSeq(d, FirstNonZero(d), Len(d))

RECURSIVE Pow10(_)
Pow10(k) == IF k = 0 THEN 1 ELSE 10 * Pow10(k - 1)
RECURSIVE Pow2(_)
Pow2(k) == IF k = 0 THEN 1 ELSE 2 * Pow2(k - 1)

\* the number that the first i digits of d spell in the radix, for a number
\* within the model checker's integers; once beyond limit it stays there
RECURSIVE RadixValue(_, _, _, _)
RadixValue(d, i, radix, limit) ==
  IF i = 0 THEN 0
  ELSE LET v == RadixValue(d, i - 1, radix, limit)
       IN  IF v > limit THEN v ELSE v * radix + d[i]

\* the number that up to ten decimal digits within MaxThousandths spell
DigitsValue(d) == RadixValue(d, Len(d), 10, MaxThousandths)

\* the decimal digits of n > 0
DigitCount(n) ==
  CHOOSE c \in 1..10 : (c = 1 \/ Pow10(c - 1) <= n) /\ (c = 10 \/ n < Pow10(c))
ToDigits(n) ==
  SubSeq([i \in 1..DigitCount(n) |-> (n \div Pow10(DigitCount(n) - i)) % 10],
         1, DigitCount(n))
MaxDigits == ToDigits(MaxThousandths)

\* a < b, for digit sequences without leading zeros (<<>> is 0)
Less(a, b) ==
  \/ Len(a) < Len(b)
  \/ /\ Len(a) = Len(b)
     /\ \E i \in 1..Len(a) : a[i] < b[i] /\ \A j \in 1..(i - 1) : a[j] = b[j]

\* twice the number d: a digit takes a carry when the digit to its right
\* is 5 or more
Double(d) ==
  (IF Len(d) > 0 /\ d[1] >= 5 THEN <<1>> ELSE <<>>)
  \o [i \in 1..Len(d) |->
        ((2 * d[i]) % 10) + (IF i < Len(d) /\ d[i + 1] >= 5 THEN 1 ELSE 0)]

\* d * 2^k; each doubling is worked out before the next one starts
RECURSIVE Doubled(_, _)
Doubled(d, k) ==
  IF k = 0 THEN d
  ELSE CHOOSE r \in {Doubled(e, k - 1) : e \in {Double(d)}} : TRUE

\* d + c for a digit c: the carry runs through the nines at the end, to
\* position j
Carried(d, c, j) ==
  (IF j = 0 THEN <<1>> ELSE <<>>)
  \o [i \in 1..Len(d) |->
        IF i < j THEN d[i]
        ELSE IF i = j THEN d[i] + 1
        ELSE IF i < Len(d) THEN 0
        ELSE d[i] + c - 10]
AddSmall(d, c) ==
  IF Len(d) = 0 THEN (IF c = 0 THEN <<>> ELSE <<c>>)
  ELSE IF d[Len(d)] + c < 10 THEN [d EXCEPT ![Len(d)] = @ + c]
  ELSE Carried(d, c, CHOOSE j \in 0..(Len(d) - 1) :
                       /\ j = 0 \/ d[j] # 9
                       /\ \A m \in (j + 1)..(Len(d) - 1) : d[m] = 9)

\* x / 10^e for x > 0: the digits of its integer part
IntegerPart(x, e) == IF Len(x) <= e THEN <<>> ELSE SubSeq(x, 1, Len(x) - e)

Odd(d) == d[Len(d)] % 2 = 1

\* a double has 53 mantissa bits: the numbers of the binade of 2^b are the
\* multiples of 2^(b - MantissaBits)
MantissaBits == 52

\* the binade of n / 1000: the largest b with 2^b <= n / 1000, for n from 1
\* to MaxThousandths
AtLeastPow2(n, j) ==
  IF j >= 0 THEN 1000 * Pow2(j) <= n ELSE n >= 1000 \/ 1000 <= n * Pow2(-j)
Binade(n) ==
  CHOOSE j \in (-10)..21 : AtLeastPow2(n, j) /\ (j = 21 \/ ~AtLeastPow2(n, j + 1))

\* x / 10^e against the bounds of the interval of numbers that round to the
\* mantissa m = q or q + 1 (up), in halves of the last mantissa bit:
\* xi and xf are the integer part of x / 10^e and whether it has a fraction
\* that is not zero,
\* q2 is 2 * q. From 2m - 1 to 2m + 1, bounds included when m is even; below
\* a power of two the doubles lie twice as close, so that the lower bound
\* of its interval is 2m - 1/2
AboveLower(x, e, xi, xf, q2, up, even, power) ==
  IF up
  THEN IF even THEN ~Less(xi, AddSmall(q2, 1))
       ELSE Less(AddSmall(q2, 1), xi) \/ (xi = AddSmall(q2, 1) /\ xf)
  ELSE IF power
  THEN ~Less(AddSmall(IntegerPart(Double(x), e), 1), Double(q2))
  ELSE \E x1 \in {AddSmall(xi, 1)} :
         IF even THEN ~Less(x1, q2) ELSE Less(q2, x1) \/ (x1 = q2 /\ xf)
InInterval(x, e, q, up, power) ==
  \E q2 \in {Double(q)}, xi \in {IntegerPart(x, e)},
     xf \in {Len(x) <= e \/ \E i \in (Len(x) - e + 1)..Len(x) : x[i] # 0} :
    /\ AboveLower(x, e, xi, xf, q2, up, Odd(q) = up, power)
    /\ \E hi \in {AddSmall(q2, IF up THEN 3 ELSE 1)} :
         Less(xi, hi) \/ (Odd(q) = up /\ xi = hi /\ ~xf)

\* does the number D / 10^e round to the double that n / 1000 rounds to,
\* for n from 1 to MaxThousandths. With w = n * 2^k, n / 1000 * 2^k =
\* w / 1000 lies between 2^52 and 2^53: its mantissa is w / 1000 rounded to
\* the nearest integer; the smallest mantissa is that of a power of two
RoundsTo(D, e, n) ==
  \E k \in {MantissaBits - Binade(n)} :
    \E x \in {Doubled(D, k + 1)}, w \in {Doubled(ToDigits(n), k)} :
      \E q \in {SubSeq(w, 1, Len(w) - 3)},
         r \in {DigitsValue(SubSeq(w, Len(w) - 2, Len(w)))} :
        InInterval(x, e, q, r > 500 \/ (r = 500 /\ Odd(q)),
                   r = 0 /\ q = Doubled(<<1>>, MantissaBits))

\* the digits of 5^1075: half of the smallest double, 2^-1075, is
\* 5^1075 / 10^1075 = 0.2470328... * 10^-323
HalfMinDouble ==
  "2470328229206232720882843964341106861825299013071623822127928412"
  \o "5033775363510437593264991818081799618989828234772285886546332835"
  \o "5177969898199387398005390939063150356595155702263922908583924491"
  \o "0518443593180284993653615250031937045767824921936562366986365848"
  \o "0757001585769269903706311928279558551332927834338409351978015531"
  \o "2465972635795746227664652728272200563740064854999770965994704540"
  \o "2082816622623785739345073633900796776193057750674017632467360096"
  \o "8951340535537458516661134223766678604162159680461914467291840300"
  \o "5300575308490487653917113865916462395249126236538818796362393732"
  \o "8042389101867234849766823508986338858792562830275599565752445550"
  \o "7255189313690836254779186948667994968324049705821028513185451396"
  \o "213837722826145437693412532098591327667236328125"

\* 0.a <= 0.b for the digits a and b of two fractions
DigitAt(d, i) == IF i <= Len(d) THEN d[i] ELSE 0
FractionAtMost(a, b) ==
  ~\E i \in 1..(IF Len(a) > Len(b) THEN Len(a) ELSE Len(b)) :
     /\ DigitAt(a, i) > DigitAt(b, i)
     /\ \A j \in 1..(i - 1) : DigitAt(a, j) = DigitAt(b, j)

\* the number D * 10^E = 0.D * 10^(Len(D) + E): is it at most half of the
\* smallest double 4.94e-324, which ToNumber rounds to 0 (the tie goes to 0,
\* the even one)
Underflows(D, E) ==
  \/ Len(D) + E <= -324
  \/ /\ Len(D) + E = -323
     /\ FractionAtMost(D, Digits(HalfMinDouble, 1, Len(HalfMinDouble) + 1))

\* Finite(n) when D * 10^E rounds to the double of n / 1000
Near(D, E, n) == IF RoundsTo(D, -E, n) THEN Finite(n) ELSE Outside

\* D * 10^E * 1000 with a fraction: c digits before the point. A double of
\* the model is less than a millionth of a thousandth away from every number
\* that rounds to it, so the six decimals after the point are all 0, or all
\* 9, of a number that does
AllAre(D, c, digit) == \A i \in (c + 1)..(c + 6) : D[i] = digit
Fractional(D, E, c) ==
  IF c > 0 /\ Less(MaxDigits, SubSeq(D, 1, c)) THEN Outside
  ELSE IF c <= -6 \/ (c > 0 /\ Len(D) >= c + 7 /\ AllAre(D, c, 0))
  THEN IF c > 0 THEN Near(D, E, DigitsValue(SubSeq(D, 1, c)))
       ELSE IF Underflows(D, E) THEN Finite(0) ELSE Outside
  ELSE IF /\ c >= 0 /\ Len(D) >= c + 6 /\ AllAre(D, c, 9)
          /\ (c = 0 \/ SubSeq(D, 1, c) # MaxDigits)
  THEN Near(D, E, (IF c = 0 THEN 0 ELSE DigitsValue(SubSeq(D, 1, c))) + 1)
  ELSE Outside

\* the number D * 10^E, D the digits from the first to the last one that
\* is not 0: a whole number of thousandths when E + 3 >= 0
Scaled(D, E) ==
  IF Len(D) + E + 3 > 10 THEN Outside
  ELSE IF E + 3 < 0 THEN Fractional(D, E, Len(D) + E + 3)
  ELSE IF Less(MaxDigits, D \o [i \in 1..(E + 3) |-> 0]) THEN Outside
  ELSE Finite(DigitsValue(D \o [i \in 1..(E + 3) |-> 0]))

\* an exponent of more digits than this is beyond every string's length:
\* the number is Infinity, or 0
MaxExponentDigits == 9

\* the digits of the literal (the integer digits and the decimals read as
\* one number), the number of decimals among them, and the exponent part
DecimalValue(all, decimals, exp, negative) ==
  IF FirstNonZero(all) > Len(all) THEN Finite(0)
  ELSE IF Len(exp) > MaxExponentDigits THEN (IF negative THEN Finite(0) ELSE Outside)
  ELSE Scaled(SubSeq(all, FirstNonZero(all), LastNonZero(all)),
              (Len(all) - LastNonZero(all)) - decimals
              + (IF negative THEN -DigitsValue(exp) ELSE DigitsValue(exp)))

\* the literal whose integer digits end before i1, whose decimals end before
\* i2, and whose exponent digits run from i3 to before i4: at least one
\* digit, an exponent part with at least one, and nothing after it
WithExponent(s, i1, i2, i3, i4) ==
  IF (i1 = 1 /\ i2 <= i1 + 1) \/ (i3 > i2 /\ i4 = i3) \/ i4 # Len(s) + 1 THEN NaN
  ELSE DecimalValue(Digits(s, 1, i1) \o Digits(s, i1 + 1, i2),
                    IF i2 > i1 THEN i2 - i1 - 1 ELSE 0,
                    WithoutLeadingZeros(Digits(s, i3, i4)),
                    i3 = i2 + 2 /\ CharAt(s, i2 + 1) = "-")
ExponentStart(s, i2) ==
  IF CharAt(s, i2) \notin {"e", "E"} THEN i2
  ELSE IF CharAt(s, i2 + 1) \in {"+", "-"} THEN i2 + 2
  ELSE i2 + 1
WithDecimals(s, i1, i2) ==
  WithExponent(s, i1, i2, ExponentStart(s, i2), RunEnd(s, ExponentStart(s, i2), 10))
WithInteger(s, i1) ==
  WithDecimals(s, i1, IF CharAt(s, i1) = "." THEN RunEnd(s, i1 + 1, 10) ELSE i1)

\* StrUnsignedDecimalLiteral: Infinity, or digits with an optional fraction
\* and an optional exponent
UnsignedDecimal(s) ==
  IF s = "Infinity" THEN Outside ELSE WithInteger(s, RunEnd(s, 1, 10))

\* NonDecimalIntegerLiteral: 0x, 0o, 0b and digits of that radix; a whole
\* number of more than 22 digits is beyond MaxThousandths in every radix
NonDecimalValue(d, radix) ==
  IF Len(d) > 22 THEN Outside
  ELSE IF RadixValue(d, Len(d), radix, MaxThousandths \div 1000) > MaxThousandths \div 1000
  THEN Outside
  ELSE Finite(1000 * RadixValue(d, Len(d), radix, MaxThousandths \div 1000))
NonDecimal(s, radix) ==
  IF Len(s) < 3 \/ RunEnd(s, 3, radix) # Len(s) + 1 THEN NaN
  ELSE NonDecimalValue(WithoutLeadingZeros(Digits(s, 3, Len(s) + 1)), radix)

\* a minus sign negates the number; NaN stays NaN, and the n of an outcome
\* that is no number of the model is 0
Trimmed(s) ==
  IF s = "" THEN Finite(0)
  ELSE IF CharAt(s, 1) = "0" /\ CharAt(s, 2) \in {"x", "X"} THEN NonDecimal(s, 16)
  ELSE IF CharAt(s, 1) = "0" /\ CharAt(s, 2) \in {"o", "O"} THEN NonDecimal(s, 8)
  ELSE IF CharAt(s, 1) = "0" /\ CharAt(s, 2) \in {"b", "B"} THEN NonDecimal(s, 2)
  ELSE IF CharAt(s, 1) = "+" THEN UnsignedDecimal(SubSeq(s, 2, Len(s)))
  ELSE IF CharAt(s, 1) = "-"
  THEN [UnsignedDecimal(SubSeq(s, 2, Len(s))) EXCEPT !.n = -@]
  ELSE UnsignedDecimal(s)

\* ToNumber of a string (StringToNumber of the language specification)
StringToNumber(str) == Trimmed(TrimEnd(TrimStart(str)))

\* a === b
StrictEq(a, b) == a.t # "object" /\ a = b

\* a number and a string compared as numbers
NumberEqString(num, str) == StringToNumber(str) = Finite(num)

\* ToPrimitive: a String object gives its string
ToPrimitive(v) == IF v.t = "object" THEN Str(v.s) ELSE v

\* a == b on undefined, strings and numbers
LooseEqPrimitive(a, b) ==
  \/ a = b
  \/ a.t = "number" /\ b.t = "string" /\ NumberEqString(a.n, b.s)
  \/ a.t = "string" /\ b.t = "number" /\ NumberEqString(b.n, a.s)

\* a == b (abstract equality) on undefined, strings, numbers and String
\* objects; two objects are equal only when they are the same object, which
\* two values obtained from different sources never are; an object is
\* never equal to undefined
LooseEq(a, b) ==
  IF a.t = "object" /\ b.t = "object" THEN FALSE
  ELSE IF a.t = "object" \/ b.t = "object"
  THEN a.t # "undefined" /\ b.t # "undefined"
       /\ LooseEqPrimitive(ToPrimitive(a), ToPrimitive(b))
  ELSE LooseEqPrimitive(a, b)

----------------------------------------------------------------------------
(* Claim maps, as JSON.parse returns them *)

ClaimKeys == {"exp", "iat", "aud", "iss", "sub", "auth_time", "alg", "kid", "role"}

NoClaims == [k \in ClaimKeys |-> Undef]

\* the value JSON.parse returned: an object, null, or a scalar
Object(o) == [k |-> "object", o |-> o]
JsonNull == [k |-> "null", o |-> NoClaims]

\* claims[key]: undefined on a scalar (on null the read throws, see Apply)
Read(claims, key) == IF claims.k = "object" THEN claims.o[key] ELSE Undef

\* Math.round(new Date().getTime() / 1000): half a second rounds up
RoundSeconds(ms) == (ms + 500) \div 1000

----------------------------------------------------------------------------
(* The predicate library *)

Equals(key, expected, claims) == StrictEq(Str(expected), Read(claims, key))

\* variant: the comparison written >= instead of >
InFutureOrNow(key, claims, ms) ==
  LET value == Read(claims, key)
  IN  value.t = "number" /\ value.n >= RoundSeconds(ms) * 1000
InFuture(key, claims, ms) ==
  LET value == Read(claims, key)
  IN  value.t = "number" /\ value.n > RoundSeconds(ms) * 1000

InPast(key, claims, ms) ==
  LET value == Read(claims, key)
  IN  value.t = "number" /\ value.n <= RoundSeconds(ms) * 1000

\* (typeof value === 'string' || value instanceof String) && value !== "";
\* among the model's values the instances of String are the String objects
NotEmpty(key, claims) ==
  LET value == Read(claims, key)
  IN  (value.t = "string" \/ value.t = "object") /\ ~StrictEq(value, Str(""))

\* A predicate as a value: a library predicate closed over its key, or one of
\* the caller's own functions (returning true, returning false, throwing).
Pred(f, key, expected) == [f |-> f, key |-> key, expected |-> expected]
CustomTrue == Pred("customTrue", "", "")
CustomFalse == Pred("customFalse", "", "")
CustomThrow == Pred("customThrow", "", "")

\* cond(claims): "true", "false" or "throw"
Apply(cond, claims, ms) ==
  LET b(x) == IF x THEN "true" ELSE "false"
  IN  CASE cond.f = "customTrue" -> "true"
        [] cond.f = "customFalse" -> "false"
        [] cond.f = "customThrow" -> "throw"
        [] claims.k = "null" -> "throw"
        [] cond.f = "Equals" -> b(Equals(cond.key, cond.expected, claims))
        [] cond.f = "InFuture" -> b(InFuture(cond.key, claims, ms))
        [] cond.f = "InPast" -> b(InPast(cond.key, claims, ms))
        [] cond.f = "NotEmpty" -> b(NotEmpty(cond.key, claims))

\* conditions.every(cond => cond(claims)) from index i on: the outcome and the
\* number of conditions that were called (every stops at the first false).
\* Each time predicate reads the clock itself: clock[i] is what the clock
\* shows while conditions[i] runs
RECURSIVE EveryFrom(_, _, _, _)
EveryFrom(claims, conditions, clock, i) ==
  IF i > Len(conditions) THEN [res |-> "true", called |-> i - 1]
  ELSE LET r == Apply(conditions[i], claims, clock[i])
       IN  IF r = "true" THEN EveryFrom(claims, conditions, clock, i + 1)
           ELSE [res |-> r, called |-> i]

validateClaims(claims, conditions, clock) == EveryFrom(claims, conditions, clock, 1)

\* a clock that shows ms during n conditions
Steady(ms, n) == [i \in 1..n |-> ms]

----------------------------------------------------------------------------
(* Token segments and decodeJwt *)

\* what a segment's bytes are once base64 is undone
ObjectText(o) == [k |-> "object", o |-> o, signer |-> "", over |-> <<>>]
NullText == [k |-> "null", o |-> NoClaims, signer |-> "", over |-> <<>>]
ScalarText == [k |-> "scalar", o |-> NoClaims, signer |-> "", over |-> <<>>]
GarbageText == [k |-> "garbage", o |-> NoClaims, signer |-> "", over |-> <<>>]
\* the RS256 signature made with private key `signer` over the text h "." p
SignatureBytes(signer, h, p) ==
  [k |-> "signature", o |-> NoClaims, signer |-> signer, over |-> <<h, p>>]

\* a segment: length mod 4, character validity for atob, UTF-8 validity of
\* the decoded bytes, the variant of the text, the decoded content
Segment(len4, chars, utf8, variant, text) ==
  [len4 |-> len4, chars |-> chars, utf8 |-> utf8, variant |-> variant, text |-> text]

\* the token argument: null, the empty string, or a string split at its dots
NullToken == [k |-> "null", parts |-> <<>>]
EmptyToken == [k |-> "empty", parts |-> <<Segment(0, TRUE, TRUE, 0, GarbageText)>>]
Jwt(parts) == [k |-> "string", parts |-> parts]

\* !token
\* variant: token === null instead of !token
MissingNullOnly(token) == token.k = "null"
Missing(token) == token.k \in {"null", "empty"}

\* decodeBase64(str) throws: str is undefined (parts[i] beyond the split), the
\* length leaves remainder 1, or atob rejects the characters
DecodeBase64Throws(parts, i) ==
  \/ i > Len(parts)
  \/ parts[i].len4 = 1
  \/ ~parts[i].chars

\* JSON.parse(text) throws unless the text is JSON
JsonParseThrows(text) == text.k \notin {"object", "null", "scalar"}
JsonParse(text) == [k |-> text.k, o |-> text.o]

\* decodeURIComponent(escape(bytes)), of the payload, throws on bytes that
\* are not UTF-8
DecodeThrows(token) ==
  LET parts == token.parts
  IN  \/ DecodeBase64Throws(parts, 1)
      \/ JsonParseThrows(parts[1].text)
      \/ DecodeBase64Throws(parts, 2)
      \/ ~parts[2].utf8
      \/ JsonParseThrows(parts[2].text)
      \/ DecodeBase64Throws(parts, 3)

\* the decoded token; parts beyond the third are never looked at
decodeJwt(token) ==
  LET parts == token.parts
  IN  IF DecodeThrows(token) THEN [ok |-> FALSE]
      ELSE [ok |-> TRUE,
            header |-> JsonParse(parts[1].text),
            payload |-> JsonParse(parts[2].text),
            signature |-> parts[3].text,
            raw |-> [header |-> parts[1], payload |-> parts[2]]]

----------------------------------------------------------------------------
(* Keys, the provider's key sets, fetch responses *)

\* a JWK record: its kid and its key material ("malformed" cannot be imported)
Jwk(kid, material) == [kid |-> kid, material |-> material]
\* the undefined that find returns when no record matches
NoJwk == [kid |-> Undef, material |-> "undefined"]

\* the sets Google's endpoint serves: before and after a rotation
KeySetA == <<Jwk(Str("k1"), "K1"), Jwk(Str("1"), "K2")>>
KeySetB == <<Jwk(Str("1"), "K2"), Jwk(Str("k3"), "K3"), Jwk(Str("k4"), "malformed")>>
KeySets == <<KeySetA, KeySetB>>

\* the value of jwks.keys, and of a parsed cache entry: a list of records, a
\* truthy value that is no list, an object with an error property, or nothing
KeyList(items) == [k |-> "list", items |-> items]
NotAList == [k |-> "scalar", items |-> <<>>]
ErrorObject == [k |-> "errorObject", items |-> <<>>]
Nothing == [k |-> "undefined", items |-> <<>>]

Truthy(v) == v.k # "undefined"

\* array.find over a list, with the comparison the caller uses
RECURSIVE FindFrom(_, _, _, _)
FindFrom(items, kid, loose, i) ==
  IF i > Len(items) THEN NoJwk
  ELSE IF (IF loose THEN LooseEq(items[i].kid, kid) ELSE StrictEq(items[i].kid, kid))
       THEN items[i]
       ELSE FindFrom(items, kid, loose, i + 1)

\* value.find(...) throws when value is no array
FindThrows(v) == v.k # "list"

\* key.find((x) => x.kid == kid) on the cached set
\* variant: the first record taken whatever its kid
FindCachedFirst(v, kid) == IF Len(v.items) > 0 THEN v.items[1] ELSE NoJwk
FindCached(v, kid) == FindFrom(v.items, kid, TRUE, 1)

\* jwks.keys.find((x) => x.kid === kid) on the fetched set
FindFetched(v, kid) == FindFrom(v.items, kid, FALSE, 1)

\* JSON.stringify for the put and the 'json' read of the get
JsonStringify(v) == [json |-> <<v.k, v.items>>]
JsonRead(s) == [k |-> s.json[1], items |-> s.json[2]]

\* the Cache-Control header of the response: absent, or present with or
\* without a max-age=N directive
NoHeader == [present |-> FALSE, directive |-> FALSE, n |-> 0]
MaxAgeHeader(n) == [present |-> TRUE, directive |-> TRUE, n |-> n]

\* the headers a response may carry
Headers ==
  {NoHeader, [NoHeader EXCEPT !.present = TRUE], MaxAgeHeader(120), MaxAgeHeader(121)}

\* a response of the endpoint: the keys member of its body and its
\* Cache-Control header
Response(keys, header) == [keys |-> keys, header |-> header]

\* "no value": the undefined of maxAge and of expirationTtl
NoTtl == -1000000

\* matches ? parseInt(matches[1]) - 120 : undefined
MaxAgeOf(header) ==
  IF header.present /\ header.directive THEN header.n - 120 ELSE NoTtl

\* the default parameter ttl = 3600 of cacheKey replaces an undefined argument
DefaultTtl == 3600
\* variant: a parameter without a default value
TtlParameterAsPassed(maxAge) == maxAge
TtlParameter(maxAge) == IF maxAge = NoTtl THEN DefaultTtl ELSE maxAge

\* expirationTtl: ttl > 0 ? ttl : undefined
ExpirationTtl(ttl) == IF ttl > 0 THEN ttl ELSE NoTtl

\* data && !data.error
\* variant: the test of data.error left out
CacheableWithError(data) == Truthy(data)
Cacheable(data) == Truthy(data) /\ data.k # "errorObject"

----------------------------------------------------------------------------
(* The inputs of auth that the model draws *)

ProjectId == "p1"
Issuer(projectId) == "https://securetoken.google.com/" \o projectId

\* the clock's first reading, in milliseconds
StartMs == 1000 * 1000

HeaderClaims(alg, kid) == [NoClaims EXCEPT !["alg"] = alg, !["kid"] = kid]

GoodClaims ==
  [NoClaims EXCEPT !["exp"] = Num(StartMs + 3600 * 1000),
                   !["iat"] = Num(StartMs - 10 * 1000),
                   !["aud"] = Str(ProjectId),
                   !["iss"] = Str(Issuer(ProjectId)),
                   !["sub"] = Str("abc"),
                   !["auth_time"] = Num(StartMs - 10 * 1000)]

\* claim maps that differ from GoodClaims in one claim
ClaimChanges ==
  {<<"exp", Undef>>, <<"exp", Str("9999999999")>>, <<"exp", Num(StartMs)>>,
   <<"exp", Num(StartMs + 1000)>>, <<"exp", Num(StartMs + 250)>>,
   <<"iat", Undef>>, <<"iat", Num(StartMs + 1000)>>,
   <<"aud", Undef>>, <<"aud", Str("other")>>,
   <<"iss", Str("https://evil.example/p1")>>,
   <<"sub", Undef>>, <<"sub", Str("")>>, <<"sub", Num(1000)>>,
   <<"auth_time", Undef>>, <<"auth_time", Num(StartMs + 1000)>>,
   <<"role", Str("admin")>>}

HeaderSegment(o) == Segment(0, TRUE, TRUE, 0, ObjectText(o))
PayloadSegment(o) == Segment(2, TRUE, TRUE, 0, ObjectText(o))
SignatureSegment(signer, h, p) == Segment(3, TRUE, TRUE, 0, SignatureBytes(signer, h, p))

GoodHeader == HeaderSegment(HeaderClaims(Str("RS256"), Str("k1")))
GoodPayload == PayloadSegment(GoodClaims)
GoodSignature == SignatureSegment("K1", GoodHeader, GoodPayload)

\* a token whose signature was made by `signer` over its own two segments
Signed(signer, h, p) == Jwt(<<h, p, SignatureSegment(signer, h, p)>>)

\* payload segments other than GoodPayload
PayloadSegments ==
  {PayloadSegment([GoodClaims EXCEPT ![c[1]] = c[2]]) : c \in ClaimChanges}
  \cup {Segment(2, TRUE, TRUE, 1, ObjectText(GoodClaims)),
        Segment(1, TRUE, TRUE, 0, ObjectText(GoodClaims)),
        Segment(2, FALSE, TRUE, 0, ObjectText(GoodClaims)),
        Segment(2, TRUE, FALSE, 0, ObjectText(GoodClaims)),
        Segment(2, TRUE, TRUE, 0, NullText),
        Segment(2, TRUE, TRUE, 0, ScalarText),
        Segment(2, TRUE, TRUE, 0, GarbageText)}

\* header segments other than GoodHeader, each with the key that signs for it
HeaderSegments ==
  {<<HeaderSegment(HeaderClaims(Str("HS256"), Str("k1"))), "K1">>,
   <<HeaderSegment(HeaderClaims(Undef, Str("k1"))), "K1">>,
   <<HeaderSegment(HeaderClaims(Str("RS256"), Undef)), "K1">>,
   <<HeaderSegment(HeaderClaims(Str("RS256"), Str("k4"))), "K1">>,
   <<HeaderSegment(HeaderClaims(Str("RS256"), Str("1"))), "K2">>,
   <<HeaderSegment(HeaderClaims(Str("RS256"), Num(1000))), "K2">>,
   <<HeaderSegment(HeaderClaims(Str("RS256"), Str("k3"))), "K3">>,
   <<Segment(0, TRUE, TRUE, 0, NullText), "K1">>,
   <<Segment(0, TRUE, TRUE, 0, GarbageText), "K1">>,
   <<Segment(3, TRUE, FALSE, 0, ObjectText(HeaderClaims(Str("RS256"), Str("k1")))), "K1">>}

\* third segments other than GoodSignature
SignatureSegments ==
  {SignatureSegment("KX", GoodHeader, GoodPayload),
   Segment(3, TRUE, TRUE, 0, GarbageText),
   Segment(1, TRUE, TRUE, 0, SignatureBytes("K1", GoodHeader, GoodPayload)),
   Segment(3, FALSE, TRUE, 0, SignatureBytes("K1", GoodHeader, GoodPayload))}

\* the tokens a call may be given: the good token and tokens one change away
\* from it, each altered payload re-signed, and with the signature of the
\* good payload kept when it differs in a claim that is no time, or in its
\* encoding
Tokens ==
  {NullToken, EmptyToken, Signed("K1", GoodHeader, GoodPayload),
   Signed("K1", GoodHeader,
          PayloadSegment([GoodClaims EXCEPT !["exp"] = Num(StartMs + 1000),
                                            !["iat"] = Num(StartMs + 1000)]))}
  \cup {Signed("K1", GoodHeader, p) : p \in PayloadSegments}
  \cup {Jwt(<<GoodHeader, p, GoodSignature>>) :
          p \in {q \in PayloadSegments :
                   \A k \in {"exp", "iat", "auth_time"} : q.text.o[k] = GoodClaims[k]}}
  \cup {Signed(h[2], h[1], GoodPayload) : h \in HeaderSegments}
  \cup {Jwt(<<GoodHeader, GoodPayload, s>>) : s \in SignatureSegments}
  \cup {Jwt(<<GoodHeader>>), Jwt(<<GoodHeader, GoodPayload>>),
        Jwt(<<GoodHeader, GoodPayload, GoodSignature, GoodSignature>>),
        Jwt(<<GoodHeader, GoodPayload, GoodSignature,
              Segment(0, TRUE, TRUE, 0, GarbageText)>>)}

\* the predicates a caller may pass: functions of its own and a time
\* predicate of the library, and the lists of them a call may pass
CheckLists ==
  UNION {[1..n -> {CustomTrue, CustomFalse, CustomThrow, Pred("InFuture", "exp", "")}] :
           n \in 0..MaxChecks}

\* the six payload checks and the header check of auth
StandardChecks(projectId) ==
  <<Pred("InFuture", "exp", ""),
    Pred("InPast", "iat", ""),
    Pred("Equals", "aud", projectId),
    Pred("Equals", "iss", Issuer(projectId)),
    Pred("NotEmpty", "sub", ""),
    Pred("InPast", "auth_time", "")>>
HeaderChecks == <<Pred("Equals", "alg", "RS256")>>

----------------------------------------------------------------------------
(* The Workers KV namespace *)

CacheKeys == {"google_pk", "session"}

NoEntry == [value |-> JsonStringify(Nothing), ttl |-> NoTtl, present |-> FALSE]
Entry(value, ttl) == [value |-> value, ttl |-> ttl, present |-> TRUE]

\* cache.get(key, 'json'): the parsed value, or null when nothing is stored
KvGet(kv, key) == IF kv[key].present THEN JsonRead(kv[key].value) ELSE Nothing

\* cache.put(key, value, {expirationTtl})
KvPut(kv, key, value, expirationTtl) ==
  [kv EXCEPT ![key] = Entry(value, expirationTtl)]

\* cacheKey's put: cache.put('google_pk', JSON.stringify(data), {expirationTtl})
\* variant: the put made under another key of the namespace
cacheKeyOtherKey(kv, data, maxAge) ==
  KvPut(kv, "session", JsonStringify(data), ExpirationTtl(TtlParameter(maxAge)))
cacheKey(kv, data, maxAge) ==
  KvPut(kv, "google_pk", JsonStringify(data), ExpirationTtl(TtlParameter(maxAge)))

\* history: no lookup has filled the entry
NoFill == [filled |-> FALSE, kid |-> Undef, jwk |-> NoJwk]

----------------------------------------------------------------------------
(* auth: the part that runs before the first await *)

ReturnedUndefined == [k |-> "undefined", claims |-> JsonNull]
ReturnedClaims(claims) == [k |-> "claims", claims |-> claims]

\* catch (e) { console.error(...); return undefined; }
\* variant: a catch that handles only the three object literals auth throws
\* itself
CatchOwnThrows(e) ==
  IF e \in {"No token provided", "Claims not valid", "Signature not valid"}
  THEN ReturnedUndefined
  ELSE [k |-> "raised", claims |-> JsonNull]
Catch(e) == ReturnedUndefined

\* the clock readings that follow the six standard checks: the i-th is what
\* the clock shows while the caller's i-th predicate runs
CallerClock(clock) == [i \in 1..(Len(clock) - 6) |-> clock[6 + i]]

\* what the clock showed to InFuture('exp'), InPast('iat') and
\* InPast('auth_time'), the first, second and sixth standard check, and to
\* each time predicate (InFuture, InPast: the library's predicates that read
\* the clock) among the caller's; 0 where the clock was not looked
\* at: `ran` of the standard checks and `called` of the caller's predicates
\* ran
ReadsOf(checks, clock, ran, called) ==
  [exp |-> IF ran >= 1 THEN clock[1] ELSE 0,
   iat |-> IF ran >= 2 THEN clock[2] ELSE 0,
   auth_time |-> IF ran >= 6 THEN clock[6] ELSE 0,
   own |-> [i \in 1..Len(checks) |->
              IF i <= called /\ checks[i].f \in {"InFuture", "InPast"}
              THEN clock[6 + i] ELSE 0]]

\* an invocation that has not started
IdleCall ==
  [pc |-> "idle", token |-> NullToken, checks |-> <<>>, at |-> 0,
   reads |-> ReadsOf(<<>>, Steady(0, 6), 0, 0),
   decoded |-> FALSE, called |-> 0, gets |-> 0, fetches |-> 0, puts |-> 0,
   path |-> "none", resp |-> Response(Nothing, NoHeader), used |-> Nothing, maxAge |-> NoTtl,
   jwk |-> NoJwk,
   stored |-> NoEntry, thrown |-> "", result |-> [k |-> "pending", claims |-> JsonNull]]

\* a throw inside the try block ends the call with what the catch returns
Throw(c, e) == [c EXCEPT !.pc = "done", !.thrown = e, !.result = Catch(e)]

\* variant: the three validateClaims calls all evaluated, then combined
ClaimChecksEager(decoded, projectId, checks, clock) ==
  LET std == validateClaims(decoded.payload, StandardChecks(projectId), clock)
      hdr == validateClaims(decoded.header, HeaderChecks, Steady(clock[6], Len(HeaderChecks)))
      own == validateClaims(decoded.payload, checks, CallerClock(clock))
  IN  IF std.res = "throw" \/ hdr.res = "throw"
      THEN [res |-> "throw", called |-> 0, ran |-> std.called]
      ELSE IF own.res = "throw"
      THEN [res |-> "throw", called |-> own.called, ran |-> std.called]
      ELSE IF std.res = "false" \/ hdr.res = "false"
      THEN [res |-> "false", called |-> own.called, ran |-> std.called]
      ELSE [res |-> own.res, called |-> own.called, ran |-> std.called]

\* the three validateClaims calls joined by ||, in order; `called` counts the
\* caller's predicates that were invoked, `ran` the standard payload checks
\* that were. clock holds one reading for each
\* standard check and one for each predicate of the caller: a time predicate
\* the caller passes reads the clock when it runs, after the standard checks
ClaimChecks(decoded, projectId, checks, clock) ==
  LET std == validateClaims(decoded.payload, StandardChecks(projectId), clock)
      hdr == validateClaims(decoded.header, HeaderChecks, Steady(clock[6], Len(HeaderChecks)))
      own == validateClaims(decoded.payload, checks, CallerClock(clock))
  IN  IF std.res # "true" THEN [res |-> std.res, called |-> 0, ran |-> std.called]
      ELSE IF hdr.res # "true" THEN [res |-> hdr.res, called |-> 0, ran |-> std.called]
      ELSE [res |-> own.res, called |-> own.called, ran |-> std.called]

\* decodedToken.header.kid
KidOf(token) == Read(decodeJwt(token).header, "kid")

\* [raw.header, raw.payload].join('.'): the text the signature is checked over
\* variant: the data rebuilt from the decoded claims instead of the raw text
SignedDataReencoded(token) ==
  LET raw == decodeJwt(token).raw
  IN  <<[raw.header EXCEPT !.variant = 0], [raw.payload EXCEPT !.variant = 0]>>
SignedData(token) ==
  LET raw == decodeJwt(token).raw
  IN  <<raw.header, raw.payload>>

\* lines 11-38: from the call to the await of getGooglePk
AuthBegin(projectId, token, checks, clock) ==
  LET c0 == [IdleCall EXCEPT !.token = token, !.checks = checks, !.at = clock[1],
                             !.reads = ReadsOf(checks, clock, 0, 0)]
      c1 == [c0 EXCEPT !.decoded = TRUE]
  IN  IF Missing(token) THEN Throw(c0, "No token provided")
      ELSE IF ~decodeJwt(token).ok THEN Throw(c1, "decodeJwt threw")
      ELSE LET v == ClaimChecks(decodeJwt(token), projectId, checks, clock)
               c2 == [c1 EXCEPT !.called = v.called,
                                !.reads = ReadsOf(checks, clock, v.ran, v.called)]
           IN  IF v.res = "throw" THEN Throw(c2, "predicate threw")
               ELSE IF v.res = "false" THEN Throw(c2, "Claims not valid")
               ELSE [c2 EXCEPT !.pc = "get"]

----------------------------------------------------------------------------
(* The state machine *)

Init ==
  /\ call = [p \in Procs |-> IdleCall]
  /\ cache = [k \in CacheKeys |->
                IF k = "session" THEN Entry(JsonStringify(NotAList), NoTtl) ELSE NoEntry]
  /\ now = StartMs
  /\ published = 1
  /\ fill = NoFill
  /\ pin = [cond |-> CustomTrue, claims |-> JsonNull]
  /\ pout = "none"

\* the clock during the n checks of a call that starts at ms: it shows ms,
\* and may go one step on before any check after the first
Clocks(ms, n) ==
  {[i \in 1..n |-> IF i < j THEN ms ELSE ms + TickMs] :
     j \in IF ms + TickMs <= StartMs + MaxTicks * TickMs THEN 2..(n + 1) ELSE {n + 1}}

\* auth(projectId, cache, token, claimChecks) is called and runs to its
\* first await
Begin(p) ==
  /\ call[p].pc = "idle"
  /\ \E token \in Tokens, checks \in CheckLists :
       \E clock \in Clocks(now, 6 + Len(checks)) :
         /\ call' = [call EXCEPT ![p] = AuthBegin(ProjectId, token, checks, clock)]
         /\ now' = clock[Len(clock)]
  /\ UNCHANGED <<cache, published, fill, pin, pout>>

\* variant: a cached set without the kid is treated as a miss and refetched
CacheGetRefetch(p) ==
  LET c == [call[p] EXCEPT !.gets = @ + 1]
      key == KvGet(cache, "google_pk")
      found == FindCached(key, KidOf(c.token))
  IN  /\ call[p].pc = "get"
      /\ \/ call' = [call EXCEPT ![p] = Throw(c, "cache.get failed")]
         \/ /\ Truthy(key)
            /\ call' = [call EXCEPT ![p] =
                 IF FindThrows(key)
                 THEN Throw([c EXCEPT !.path = "hit", !.used = key], "find is not a function")
                 ELSE IF found = NoJwk
                 THEN [c EXCEPT !.pc = "fetch", !.path = "hit", !.used = key]
                 ELSE [c EXCEPT !.pc = "import", !.path = "hit", !.used = key,
                                !.jwk = found]]
         \/ /\ ~Truthy(key)
            /\ call' = [call EXCEPT ![p] = [c EXCEPT !.pc = "fetch", !.path = "miss"]]
      /\ UNCHANGED <<cache, now, published, fill, pin, pout>>

\* getGooglePk: await cache.get('google_pk', 'json'), then the cached branch
\* up to auth's await of importKey
CacheGet(p) ==
  LET c == [call[p] EXCEPT !.gets = @ + 1]
      key == KvGet(cache, "google_pk")
  IN  /\ call[p].pc = "get"
      /\ \/ call' = [call EXCEPT ![p] = Throw(c, "cache.get failed")]
         \/ /\ Truthy(key)
            /\ call' = [call EXCEPT ![p] =
                 IF FindThrows(key)
                 THEN Throw([c EXCEPT !.path = "hit", !.used = key], "find is not a function")
                 ELSE [c EXCEPT !.pc = "import", !.path = "hit", !.used = key,
                                !.jwk = FindCached(key, KidOf(c.token))]]
         \/ /\ ~Truthy(key)
            /\ call' = [call EXCEPT ![p] = [c EXCEPT !.pc = "fetch", !.path = "miss"]]
      /\ UNCHANGED <<cache, now, published, fill, pin, pout>>

\* what jwks.keys may be in the endpoint's response
ResponseKeys == {KeyList(KeySets[published]), Nothing, NotAList, ErrorObject}

\* variant: a failed fetch is tried again
FetchWithRetry(p) ==
  LET c == [call[p] EXCEPT !.fetches = @ + 1]
  IN  /\ call[p].pc = "fetch"
      /\ \/ call' = [call EXCEPT ![p] =
              IF c.fetches < 2 THEN c ELSE Throw(c, "fetch failed")]
         \/ \E keys \in ResponseKeys, header \in Headers :
              call' = [call EXCEPT ![p] =
                         [c EXCEPT !.pc = "json", !.resp = Response(keys, header)]]
      /\ UNCHANGED <<cache, now, published, fill, pin, pout>>

\* getGooglePk: await fetch(...): the response arrives, or the fetch fails
Fetch(p) ==
  LET c == [call[p] EXCEPT !.fetches = @ + 1]
  IN  /\ call[p].pc = "fetch"
      /\ \/ call' = [call EXCEPT ![p] = Throw(c, "fetch failed")]
         \/ \E keys \in ResponseKeys, header \in Headers :
              call' = [call EXCEPT ![p] =
                         [c EXCEPT !.pc = "json", !.resp = Response(keys, header)]]
      /\ UNCHANGED <<cache, now, published, fill, pin, pout>>

\* getGooglePk: await jwkRes.json(), then lines 145-149 up to the await of
\* cacheKey; without keys the lookup returns undefined to auth
ReadJson(p) ==
  LET c == call[p]
      keys == c.resp.keys
  IN  /\ c.pc = "json"
      /\ \/ call' = [call EXCEPT ![p] = Throw(c, "json failed")]
         \/ call' = [call EXCEPT ![p] =
              IF ~Truthy(keys) THEN [c EXCEPT !.pc = "import", !.jwk = NoJwk]
              ELSE [c EXCEPT !.pc = "put", !.used = keys,
                             !.maxAge = MaxAgeOf(c.resp.header)]]
      /\ UNCHANGED <<cache, now, published, fill, pin, pout>>

\* await cacheKey(cache, jwks.keys, maxAge): the put when the data passes
\* cacheKey's test, nothing otherwise; then jwks.keys.find in getGooglePk
CachePut(p) ==
  LET c == call[p]
      put == [c EXCEPT !.puts = @ + 1]
      jwk == FindFetched(c.used, KidOf(c.token))
      found(d) == IF FindThrows(d.used) THEN Throw(d, "find is not a function")
                  ELSE [d EXCEPT !.pc = "import", !.jwk = jwk]
  IN  /\ c.pc = "put"
      /\ IF Cacheable(c.used)
         THEN \/ /\ call' = [call EXCEPT ![p] = Throw(put, "cache.put failed")]
                 /\ UNCHANGED <<cache, fill>>
              \/ /\ cache' = cacheKey(cache, c.used, c.maxAge)
                 /\ call' = [call EXCEPT ![p] =
                      found([put EXCEPT !.stored = cache'["google_pk"]])]
                 /\ fill' = [filled |-> TRUE, kid |-> KidOf(c.token),
                             jwk |-> IF FindThrows(c.used) THEN NoJwk ELSE jwk]
         ELSE /\ call' = [call EXCEPT ![p] = found(c)]
              /\ UNCHANGED <<cache, fill>>
      /\ UNCHANGED <<now, published, pin, pout>>

\* crypto.subtle.importKey('jwk', jwk, ...) rejects undefined and malformed keys
ImportKeyThrows(jwk) == jwk = NoJwk \/ jwk.material = "malformed"

\* crypto.subtle.verify('RSASSA-PKCS1-v1_5', key, signature, data)
\* variant: the key left out of the comparison
VerifyAnySigner(jwk, signature, data) ==
  signature.k = "signature" /\ signature.over = data
Verify(jwk, signature, data) ==
  signature.k = "signature" /\ signature.signer = jwk.material /\ signature.over = data

\* lines 41-47: await crypto.subtle.importKey(...)
ImportKey(p) ==
  LET c == call[p]
  IN  /\ c.pc = "import"
      /\ call' = [call EXCEPT ![p] =
           IF ImportKeyThrows(c.jwk) THEN Throw(c, "importKey failed")
           ELSE [c EXCEPT !.pc = "verify"]]
      /\ UNCHANGED <<cache, now, published, fill, pin, pout>>

\* lines 49-53: await crypto.subtle.verify(...), return the payload or throw
VerifySignature(p) ==
  LET c == call[p]
      d == decodeJwt(c.token)
  IN  /\ c.pc = "verify"
      /\ call' = [call EXCEPT ![p] =
           IF Verify(c.jwk, d.signature, SignedData(c.token))
           THEN [c EXCEPT !.pc = "done", !.result = ReturnedClaims(d.payload)]
           ELSE Throw(c, "Signature not valid")]
      /\ UNCHANGED <<cache, now, published, fill, pin, pout>>

\* the caller has the result; the next call may start
Finish(p) ==
  /\ call[p].pc = "done"
  /\ call' = [call EXCEPT ![p] = IdleCall]
  /\ UNCHANGED <<cache, now, published, fill, pin, pout>>

\* the clock advances
Tick ==
  /\ now < StartMs + MaxTicks * TickMs
  /\ now' = now + TickMs
  /\ UNCHANGED <<call, cache, published, fill, pin, pout>>

\* Google rotates its keys
Rotate ==
  /\ published' = (published % Len(KeySets)) + 1
  /\ UNCHANGED <<call, cache, now, fill, pin, pout>>

\* the KV store drops an entry whose expirationTtl has run out
Expire ==
  /\ cache["google_pk"].present
  /\ cache["google_pk"].ttl # NoTtl
  /\ cache' = [cache EXCEPT !["google_pk"] = NoEntry]
  /\ fill' = NoFill
  /\ UNCHANGED <<call, now, published, pin, pout>>

\* the entries another invocation may leave under 'google_pk': a set that was
\* published when it fetched, stored with the ttl of the header it received
ConcurrentEntries ==
  {cacheKey(cache, keys, MaxAgeOf(header)) :
     keys \in {v \in {KeyList(KeySets[i]) : i \in 1..Len(KeySets)} \cup {NotAList} :
                 Cacheable(v)},
     header \in Headers}

\* auth does not serialise its invocations: another one that shares the
\* cache reaches its own await of cacheKey and puts the set it fetched,
\* before this invocation starts, while it waits at one of its awaits, or
\* after it has returned
ConcurrentPut ==
  /\ \E entry \in ConcurrentEntries : cache' = entry
  /\ fill' = NoFill
  /\ UNCHANGED <<call, now, published, pin, pout>>

\* the invocation that is followed step by step; the invocations that
\* overlap it act on it through the cache alone, by ConcurrentPut
Callers == {1}

Next ==
  \/ \E p \in Callers : Begin(p)
  \/ \E p \in Callers : CacheGet(p)
  \/ \E p \in Callers : Fetch(p)
  \/ \E p \in Callers : ReadJson(p)
  \/ \E p \in Callers : CachePut(p)
  \/ \E p \in Callers : ImportKey(p)
  \/ \E p \in Callers : VerifySignature(p)
  \/ \E p \in Callers : Finish(p)
  \/ ConcurrentPut
  \/ Tick
  \/ Rotate
  \/ Expire

Spec == Init /\ [][Next]_vars

----------------------------------------------------------------------------
(* What the claims speak about, read off a call's inputs directly *)

\* the call has returned
Done(p) == call[p].pc = "done"

\* the token has at least three segments whose first two parse as objects
Parsed(token) ==
  /\ token.k = "string"
  /\ Len(token.parts) >= 3
  /\ token.parts[1].text.k = "object"
  /\ token.parts[2].text.k = "object"

HeaderOf(token) == token.parts[1].text.o
PayloadOf(token) == token.parts[2].text.o

\* the Unix time in whole seconds at clock reading ms
UnixSeconds(ms) == ms \div 1000

\* the six standard payload checks and the header check, each against the
\* seconds count auth computes from what the clock showed when it ran
StandardClaimsHold(token, reads) ==
  LET c == PayloadOf(token)
      secs(ms) == RoundSeconds(ms) * 1000
  IN  /\ c["exp"].t = "number" /\ c["exp"].n > secs(reads.exp)
      /\ c["iat"].t = "number" /\ c["iat"].n <= secs(reads.iat)
      /\ c["aud"] = Str(ProjectId)
      /\ c["iss"] = Str("https://securetoken.google.com/p1")
      /\ c["sub"].t = "string" /\ c["sub"].s # ""
      /\ c["auth_time"].t = "number" /\ c["auth_time"].n <= secs(reads.auth_time)
      /\ HeaderOf(token)["alg"] = Str("RS256")

\* every predicate the caller passed returns true: its own function does,
\* or InFuture('exp') does against what the clock showed when it ran
CallerChecksHold(token, checks, reads) ==
  \A i \in 1..Len(checks) :
    \/ checks[i] = CustomTrue
    \/ /\ checks[i] = Pred("InFuture", "exp", "")
       /\ PayloadOf(token)["exp"].t = "number"
       /\ PayloadOf(token)["exp"].n > RoundSeconds(reads.own[i]) * 1000

\* the records Google serves, in any of its key sets
ProviderKeys == UNION {{KeySets[i][j] : j \in 1..Len(KeySets[i])} : i \in 1..Len(KeySets)}

\* the third segment is a signature by `material` over the first two as received
SignedBy(token, material) ==
  /\ token.parts[3].text.k = "signature"
  /\ token.parts[3].text.signer = material
  /\ token.parts[3].text.over = <<token.parts[1], token.parts[2]>>

\* C1: auth never raises: a call that has returned returned a claim map or
\* undefined, and every throw inside it ended as the return of undefined.
C1_NeverRaises ==
  \A p \in Procs :
    /\ call[p].result.k # "raised"
    /\ Done(p) => call[p].result.k \in {"claims", "undefined"}
    /\ call[p].thrown # "" => Done(p) /\ call[p].result = ReturnedUndefined
    /\ call[p].result.k = "claims" => call[p].result.claims.k = "object"

\* a call in which a caller-supplied predicate threw has returned undefined
C1_Witness ==
  \E p \in Procs :
    /\ Done(p)
    /\ call[p].thrown = "predicate threw"
    /\ \E i \in 1..Len(call[p].checks) : call[p].checks[i] = CustomThrow
    /\ call[p].result = ReturnedUndefined

\* the record's kid matches the header's kid: it is the same value, or, for
\* a record found in the cached list, one is a number and the other a string
\* that converts to that number (the fetched list is searched with ===, which
\* converts nothing)
KidMatches(recordKid, kid, path) ==
  \/ recordKid = kid
  \/ /\ path = "hit"
     /\ \/ recordKid.t = "string" /\ kid.t = "number"
              /\ StringToNumber(recordKid.s) = Finite(kid.n)
        \/ recordKid.t = "number" /\ kid.t = "string"
              /\ StringToNumber(kid.s) = Finite(recordKid.n)

\* C2: all-or-nothing: a call returns a claim map only if the six payload
\* checks, the header check and every caller predicate held, a provider key
\* record whose kid matches the header's kid was obtained and the signature
\* over the raw header and payload segments verifies under that record; the
\* map is the decoded payload; any other result carries no claims.
C2_AllOrNothing ==
  \A p \in Procs :
    LET c == call[p]
    IN  /\ c.result.k = "claims" =>
             /\ Parsed(c.token)
             /\ StandardClaimsHold(c.token, c.reads)
             /\ CallerChecksHold(c.token, c.checks, c.reads)
             /\ c.jwk \in ProviderKeys
             /\ KidMatches(c.jwk.kid, HeaderOf(c.token)["kid"], c.path)
             /\ SignedBy(c.token, c.jwk.material)
             /\ c.result.claims = Object(PayloadOf(c.token))
        /\ c.result.k # "claims" => c.result.claims = JsonNull

\* a call with a caller predicate has returned the claims
C2_Witness ==
  \E p \in Procs :
    /\ Done(p)
    /\ call[p].result.k = "claims"
    /\ Len(call[p].checks) > 0

\* the token is well formed, signed with the provider's key for its kid, and
\* passes every standard and caller-supplied check at the time of the call
ValidCall(p) ==
  LET c == call[p]
  IN  /\ c.token.k = "string"
      /\ Len(c.token.parts) = 3
      /\ ~DecodeThrows(c.token)
      /\ Parsed(c.token)
      /\ StandardClaimsHold(c.token, c.reads)
      /\ CallerChecksHold(c.token, c.checks, c.reads)
      /\ \E k \in ProviderKeys :
           /\ k.kid = HeaderOf(c.token)["kid"]
           /\ k.material # "malformed"
           /\ SignedBy(c.token, k.material)

\* the record that signed the call's token
SigningKey(p) ==
  CHOOSE k \in ProviderKeys :
    k.kid = HeaderOf(call[p].token)["kid"] /\ SignedBy(call[p].token, k.material)

\* a cache get, a fetch or a cache put of the call failed
IoFailed(p) ==
  call[p].thrown \in {"cache.get failed", "fetch failed", "json failed", "cache.put failed"}

\* the endpoint serves the record at the moment
Publishes(k) == \E j \in 1..Len(KeySets[published]) : KeySets[published][j] = k

\* the value is a key list that holds the record
Holds(v, k) == v.k = "list" /\ \E j \in 1..Len(v.items) : v.items[j] = k

\* C3 as claimed: a valid call returns the payload whatever the cache holds,
\* as long as the endpoint publishes the signing key (no I/O step failing, and
\* a fetch, when one is made, returning a key list with the signing key).
C3_Original ==
  \A p \in Procs :
    ( /\ Done(p)
      /\ ValidCall(p)
      /\ ~IoFailed(p)
      /\ Publishes(SigningKey(p))
      /\ call[p].path = "hit" => call[p].used.k = "list"
      /\ call[p].path = "miss" => Holds(call[p].used, SigningKey(p)) )
    => call[p].result = ReturnedClaims(Object(PayloadOf(call[p].token)))

\* C3 amended: a valid call returns the payload when no I/O step failed and
\* the key set the call used (the cached one when present, else the fetched
\* one) holds the signing key.
C3_ValidTokenAccepted ==
  \A p \in Procs :
    ( /\ Done(p)
      /\ ValidCall(p)
      /\ ~IoFailed(p)
      /\ Holds(call[p].used, SigningKey(p)) )
    => call[p].result = ReturnedClaims(Object(PayloadOf(call[p].token)))

\* a valid call served from a cache that an earlier call filled
C3_Witness ==
  \E p \in Procs :
    /\ Done(p)
    /\ ValidCall(p)
    /\ call[p].path = "hit"
    /\ Holds(call[p].used, SigningKey(p))
    /\ call[p].result.k = "claims"

\* C4 as claimed: a token whose number of segments is not three yields
\* undefined.
C4_NotThreeSegments ==
  \A p \in Procs :
    (Done(p) /\ call[p].token.k = "string" /\ Len(call[p].token.parts) # 3)
    => call[p].result = ReturnedUndefined

\* C5: a token whose exp is not later than the Unix time in seconds at the
\* moment of the call yields undefined.
C5_ExpiredRejected ==
  \A p \in Procs :
    ( /\ Done(p)
      /\ Parsed(call[p].token)
      /\ PayloadOf(call[p].token)["exp"].t = "number"
      /\ PayloadOf(call[p].token)["exp"].n <= UnixSeconds(call[p].at) * 1000 )
    => call[p].result = ReturnedUndefined

\* an expired token that is otherwise good and correctly signed was rejected
C5_Witness ==
  \E p \in Procs :
    /\ Done(p)
    /\ call[p].token =
         Signed("K1", GoodHeader, PayloadSegment([GoodClaims EXCEPT !["exp"] = Num(StartMs)]))
    /\ call[p].checks = <<>>
    /\ call[p].result = ReturnedUndefined

\* the signature segment is a signature over this header and another payload
PayloadAltered(token) ==
  /\ token.k = "string"
  /\ Len(token.parts) >= 3
  /\ token.parts[3].text.k = "signature"
  /\ token.parts[3].text.over[1] = token.parts[1]
  /\ token.parts[3].text.over[2] # token.parts[2]

\* C6: a token made from a signed token by altering the payload segment and
\* keeping the signature yields undefined, whatever the altered claims are.
C6_AlteredPayloadRejected ==
  \A p \in Procs :
    (Done(p) /\ PayloadAltered(call[p].token)) => call[p].result = ReturnedUndefined

\* an altered payload whose claims pass every check failed at the signature
C6_Witness ==
  \E p \in Procs :
    /\ Done(p)
    /\ PayloadAltered(call[p].token)
    /\ StandardClaimsHold(call[p].token, call[p].reads)
    /\ call[p].thrown = "Signature not valid"

\* C7: a missing token (null or empty) yields undefined before any decoding,
\* cache get, fetch or cache put.
C7_MissingToken ==
  \A p \in Procs :
    (call[p].pc # "idle" /\ call[p].token.k \in {"null", "empty"})
    => /\ Done(p)
       /\ call[p].result = ReturnedUndefined
       /\ call[p].thrown = "No token provided"
       /\ ~call[p].decoded
       /\ call[p].called = 0
       /\ call[p].gets = 0 /\ call[p].fetches = 0 /\ call[p].puts = 0

\* a call with the empty string has returned
C7_Witness ==
  \E p \in Procs : Done(p) /\ call[p].token = EmptyToken /\ call[p].result = ReturnedUndefined

\* C8 as claimed: a lookup that missed and fetched a key list made one fetch
\* and one put, and the entry it stored holds the fetched list and has a
\* finite expiration.
C8_FirstCall ==
  \A p \in Procs :
    (call[p].path = "miss" /\ call[p].used.k = "list" /\ call[p].stored.present)
    => /\ call[p].fetches = 1
       /\ call[p].puts = 1
       /\ JsonRead(call[p].stored.value) = call[p].used
       /\ call[p].stored.ttl # NoTtl

\* C9 as claimed: a lookup served from the cache, for the kid of the lookup
\* that filled it, makes no fetch and no put and returns what that lookup
\* returned.
C9_SecondCall ==
  \A p \in Procs :
    ( /\ call[p].path = "hit"
      /\ call[p].pc \in {"import", "verify", "done"}
      /\ call[p].thrown # "find is not a function"
      /\ fill.filled
      /\ fill.kid = HeaderOf(call[p].token)["kid"] )
    => /\ call[p].fetches = 0
       /\ call[p].puts = 0
       /\ call[p].jwk = fill.jwk

\* the call read a cached key list in which no record's kid matches the
\* token's kid: none is the same value, and none is a string or a number
\* that converts to it
StaleCall(c) ==
  /\ c.path = "hit"
  /\ c.used.k = "list"
  /\ \A j \in 1..Len(c.used.items) :
       ~KidMatches(c.used.items[j].kid, KidOf(c.token), c.path)
StaleHit(p) == StaleCall(call[p])

\* C11: a call that finds a cached key set without the token's kid gets no
\* key, makes no fetch and no put, returns undefined, and none of its steps
\* changes the cache: after each of them, from the get to the return, the
\* call has made one get, no fetch and no put, and the cache is what it was
\* before the step, so the cached set stays until it expires or another
\* invocation replaces it.
C11_StaleCacheNoRefetch ==
  [][\A p \in Procs :
       (call'[p] # call[p] /\ StaleCall(call'[p])) =>
         /\ call'[p].gets = 1
         /\ call'[p].fetches = 0
         /\ call'[p].puts = 0
         /\ call'[p].jwk = NoJwk
         /\ call'[p].stored = NoEntry
         /\ call'[p].pc \in {"import", "done"}
         /\ Done(p)' => call'[p].result = ReturnedUndefined
         /\ cache' = cache
         /\ call[p].pc = "get" => KvGet(cache', "google_pk") = call'[p].used]_vars

\* after a rotation a token signed with the new key met the old cached set,
\* was rejected, and the old set is still cached
C11_Witness ==
  \E p \in Procs :
    /\ Done(p)
    /\ StaleHit(p)
    /\ ValidCall(p)
    /\ Publishes(SigningKey(p))
    /\ call[p].result = ReturnedUndefined
    /\ KvGet(cache, "google_pk") = call[p].used

\* C12 as claimed: when the response carried max-age=N, the entry the call
\* stored has the expiration N - 120, for every N the header may carry.
C12_TtlIsMaxAgeMinus120 ==
  \A p \in Procs :
    ( /\ call[p].path = "miss"
      /\ call[p].used.k = "list"
      /\ call[p].stored.present
      /\ call[p].maxAge # NoTtl )
    => call[p].stored.ttl = call[p].maxAge

\* the call missed, fetched a key list from a response with no max-age
\* directive (no Cache-Control header, or one without it) and stored the list
StoredWithoutMaxAge(p) ==
  /\ call[p].path = "miss"
  /\ call[p].used.k = "list"
  /\ call[p].stored.present
  /\ call[p].maxAge = NoTtl

\* C13 as claimed: without a max-age directive the put carries no expiration.
C13_Original ==
  \A p \in Procs : StoredWithoutMaxAge(p) => call[p].stored.ttl = NoTtl

\* C13 amended: without a max-age directive the put carries the expiration
\* of 3600 seconds, the default of cacheKey's ttl parameter, and the entry it
\* stores is the fetched list.
C13_DefaultTtlStored ==
  \A p \in Procs :
    StoredWithoutMaxAge(p)
    => /\ call[p].stored.ttl = DefaultTtl
       /\ JsonRead(call[p].stored.value) = call[p].used

\* a call that fetched keys from a response without max-age was accepted
\* and the list is in the cache with the expiration 3600
C13_Witness ==
  \E p \in Procs :
    /\ Done(p)
    /\ StoredWithoutMaxAge(p)
    /\ call[p].result.k = "claims"
    /\ cache["google_pk"] = Entry(JsonStringify(call[p].used), DefaultTtl)

\* the call found the cache empty and its fetch gave no key list: the fetch
\* or the reading of the body failed, or the body had no keys member, or keys
\* was an error object
NoKeyList(p) ==
  /\ call[p].path = "miss"
  /\ call[p].fetches = 1
  /\ \/ call[p].thrown \in {"fetch failed", "json failed"}
     \/ /\ call[p].pc \in {"put", "import", "verify", "done"}
        /\ call[p].thrown # "cache.put failed"
        /\ call[p].resp.keys \in {Nothing, ErrorObject}

\* C14: a call whose fetch gave no key list gets no key, makes no put and
\* returns undefined; none of its steps changes the cache, which stays empty
\* unless another invocation puts a set; and a call whose cache get finds the
\* cache empty goes on to fetch.
C14_NoKeyListNotCached ==
  [][\A p \in Procs :
       /\ NoKeyList(p)' =>
            /\ call'[p].puts = 0
            /\ call'[p].jwk = NoJwk
            /\ call'[p].stored = NoEntry
            /\ Done(p)' => call'[p].result = ReturnedUndefined
            /\ call'[p] # call[p] => cache' = cache
            /\ (call[p].pc = "get" /\ call'[p].pc # "get")
                 => KvGet(cache', "google_pk") = Nothing
       /\ ( /\ call[p].pc = "get"
            /\ call'[p].pc # "get"
            /\ KvGet(cache, "google_pk") = Nothing
            /\ call'[p].thrown # "cache.get failed" )
          => call'[p].pc = "fetch" /\ call'[p].fetches = 0]_vars

\* a valid call met an empty cache and a response without keys, was
\* rejected, and the cache is still empty
C14_Witness ==
  \E p \in Procs :
    /\ Done(p)
    /\ NoKeyList(p)
    /\ call[p].resp.keys = Nothing
    /\ call[p].thrown = "importKey failed"
    /\ ValidCall(p)
    /\ call[p].result = ReturnedUndefined
    /\ ~cache["google_pk"].present

\* the token is present and decodeJwt throws on it
DecodeFailed(p) ==
  call[p].pc # "idle" /\ ~Missing(call[p].token) /\ ~decodeJwt(call[p].token).ok

\* the token decodes and one of the six payload checks or the header check
\* does not hold at the time of the call
StandardFailed(p) ==
  /\ call[p].pc # "idle"
  /\ ~Missing(call[p].token)
  /\ decodeJwt(call[p].token).ok
  /\ ~(Parsed(call[p].token) /\ StandardClaimsHold(call[p].token, call[p].reads))

\* the token decodes, the standard checks hold and a caller predicate does not
CallerFailed(p) ==
  /\ call[p].pc # "idle"
  /\ ~Missing(call[p].token)
  /\ decodeJwt(call[p].token).ok
  /\ Parsed(call[p].token) /\ StandardClaimsHold(call[p].token, call[p].reads)
  /\ ~CallerChecksHold(call[p].token, call[p].checks, call[p].reads)

\* C15: the steps of a call run in the order decode, standard payload checks,
\* header check, caller checks, key resolution, signature verification, each
\* only after the earlier ones succeeded: no caller predicate is invoked when
\* a standard payload or header check failed, and no cache get, fetch or put
\* is made when decoding or any check failed; verification and a claims
\* result come only after the call's cache get.
C15_StepOrder ==
  \A p \in Procs :
    LET c == call[p]
        noLookup == /\ c.gets = 0 /\ c.fetches = 0 /\ c.puts = 0
                    /\ c.path = "none"
                    /\ Done(p) /\ c.result = ReturnedUndefined
    IN  /\ DecodeFailed(p) => c.called = 0 /\ noLookup
        /\ StandardFailed(p) => c.called = 0 /\ noLookup
        /\ CallerFailed(p) => c.called >= 1 /\ noLookup
        /\ c.called > 0 => c.decoded /\ ~DecodeFailed(p) /\ ~StandardFailed(p)
        /\ c.gets > 0 =>
             /\ ~DecodeFailed(p) /\ ~StandardFailed(p) /\ ~CallerFailed(p)
             /\ c.called = Len(c.checks)
        /\ c.fetches > 0 => c.gets = 1
        /\ c.puts > 0 => c.fetches = 1
        /\ c.pc \in {"import", "verify"} => c.gets = 1
        /\ c.pc = "verify" => c.jwk # NoJwk
        /\ c.thrown \in {"importKey failed", "Signature not valid"} => c.gets = 1
        /\ c.result.k = "claims" => c.gets = 1

\* a call with a caller predicate and an expired token, correctly signed,
\* ended without invoking the predicate and without touching the cache
C15_Witness ==
  \E p \in Procs :
    /\ Done(p)
    /\ call[p].token =
         Signed("K1", GoodHeader, PayloadSegment([GoodClaims EXCEPT !["exp"] = Num(StartMs)]))
    /\ Len(call[p].checks) = 1
    /\ StandardFailed(p)
    /\ call[p].called = 0
    /\ call[p].gets = 0
    /\ call[p].thrown = "Claims not valid"

\* C16: a call makes at most one cache get, one fetch and one put; a fetch
\* is made only after the call's get found no cached set, a put only after
\* the call's fetch returned a keys member (present and no error object), and
\* a call whose fetch failed or gave no keys makes no second fetch and returns
\* undefined.
C16_AtMostOnce ==
  \A p \in Procs :
    LET c == call[p]
    IN  /\ c.gets \in {0, 1} /\ c.fetches \in {0, 1} /\ c.puts \in {0, 1}
        /\ c.pc \in {"fetch", "json", "put"} => c.path = "miss"
        /\ c.pc = "json" => c.fetches = 1 /\ c.puts = 0
        /\ c.fetches = 1 => c.gets = 1 /\ c.path = "miss"
        /\ c.path = "hit" => c.gets = 1 /\ c.fetches = 0 /\ c.puts = 0
        /\ c.path = "miss" => c.gets = 1 /\ c.thrown # "cache.get failed"
        /\ c.thrown = "cache.get failed" => c.gets = 1 /\ c.fetches = 0 /\ c.puts = 0
        /\ c.puts = 1 =>
             /\ c.fetches = 1
             /\ c.used.k \in {"list", "scalar"}
             /\ c.thrown # "fetch failed"
        /\ c.puts = 1 => c.used = c.resp.keys
        /\ c.pc = "put" => c.fetches = 1 /\ c.puts = 0 /\ Truthy(c.resp.keys)
        /\ NoKeyList(p) =>
             /\ c.fetches = 1
             /\ c.puts = 0
             /\ c.pc \in {"put", "import", "done"}
             /\ Done(p) => c.result = ReturnedUndefined

\* a valid call whose fetch failed has returned undefined after one get and
\* one fetch
C16_Witness ==
  \E p \in Procs :
    /\ Done(p)
    /\ ValidCall(p)
    /\ call[p].thrown = "fetch failed"
    /\ call[p].gets = 1
    /\ call[p].fetches = 1
    /\ call[p].puts = 0
    /\ call[p].result = ReturnedUndefined

\* the claim is a number of seconds later than the clock reading ms
LaterThan(value, ms) == value.t = "number" /\ value.n > ms

\* C18 as claimed: a token whose iat or auth_time is a time later than what
\* the clock showed, with its milliseconds, when the claim was checked yields
\* undefined.
C18_FutureIssuedRejected ==
  \A p \in Procs :
    ( /\ Done(p)
      /\ Parsed(call[p].token)
      /\ \/ LaterThan(PayloadOf(call[p].token)["iat"], call[p].reads.iat)
         \/ LaterThan(PayloadOf(call[p].token)["auth_time"], call[p].reads.auth_time) )
    => call[p].result = ReturnedUndefined

\* C19: no step changes a cache key other than 'google_pk'; a hit reads the
\* value stored under 'google_pk'; and no step of a call that found a cached
\* set changes the cache at all, whatever the call returns.
C19_OnlyGooglePk ==
  [][/\ \A k \in CacheKeys \ {"google_pk"} : cache'[k] = cache[k]
     /\ \A p \in Procs :
          /\ (call[p].pc = "get" /\ call'[p].path = "hit")
             => call'[p].used = KvGet(cache, "google_pk")
          /\ (call'[p] # call[p] /\ (call[p].path = "hit" \/ call'[p].path = "hit"))
             => cache' = cache
          /\ call'[p].path = "hit" => call'[p].puts = 0 /\ call'[p].stored = NoEntry]_vars

\* a call served from the cache was accepted; the other key of the cache
\* holds what it held at the start and 'google_pk' holds the set the call read
C19_Witness ==
  \E p \in Procs :
    /\ Done(p)
    /\ call[p].path = "hit"
    /\ call[p].result.k = "claims"
    /\ cache["session"] = Entry(JsonStringify(NotAList), NoTtl)
    /\ KvGet(cache, "google_pk") = call[p].used

----------------------------------------------------------------------------
(* The predicate library on its own: a predicate is built and called once *)

PredicateKeys == {"exp", "sub", "aud"}
PredicateValues ==
  {Undef, Str(""), Str("abc"), Str("p1"), Str("1"), Num(1000), Num(StartMs),
   Num(StartMs + 1000), Num(StartMs + 3600 * 1000), StrObj(""), StrObj("abc")}
PredicateClaims ==
  {Object([NoClaims EXCEPT ![k] = v]) : k \in PredicateKeys, v \in PredicateValues}
PredicateConditions ==
  {Pred("Equals", k, e) : k \in PredicateKeys, e \in {"p1", "1", "abc"}}
  \cup {Pred(f, k, "") : f \in {"NotEmpty", "InPast", "InFuture"}, k \in PredicateKeys}

InitPredicate ==
  /\ call = [p \in Procs |-> IdleCall]
  /\ cache = [k \in CacheKeys |->
                IF k = "session" THEN Entry(JsonStringify(NotAList), NoTtl) ELSE NoEntry]
  /\ now = StartMs
  /\ published = 1
  /\ fill = NoFill
  /\ pin \in [cond : PredicateConditions, claims : PredicateClaims]
  /\ pout = "none"

\* cond(claims) is evaluated
Evaluate ==
  /\ pout = "none"
  /\ pout' = Apply(pin.cond, pin.claims, now)
  /\ UNCHANGED <<call, cache, now, published, fill, pin>>

NextPredicate == Evaluate \/ Tick

SpecPredicate == InitPredicate /\ [][NextPredicate]_vars

\* C10 as claimed: a library predicate never raises on a claim map; Equals
\* is false when the claim is absent or not the expected string, NotEmpty is
\* false when the claim is absent, no string or empty and true for a
\* non-empty string (primitive or String object), InPast and InFuture are
\* false when the claim is absent or no number.
C10_PredicatesFalseOnMissing ==
  pout # "none" =>
    LET value == pin.claims.o[pin.cond.key]
        f == pin.cond.f
    IN  /\ pout \in {"true", "false"}
        /\ (f = "Equals" /\ (value.t # "string" \/ value.s # pin.cond.expected))
             => pout = "false"
        /\ (f = "NotEmpty" /\ (value.t \notin {"string", "object"} \/ value.s = ""))
             => pout = "false"
        /\ (f = "NotEmpty" /\ value.t \in {"string", "object"} /\ value.s # "")
             => pout = "true"
        /\ (f \in {"InPast", "InFuture"} /\ value.t # "number") => pout = "false"


----------------------------------------------------------------------------
(* Concurrent calls: two invocations of auth interleave at their awaits and
   share one cache, whose get and put are atomic *)

\* no token, and valid tokens signed with three different provider keys
ConcurrentTokens ==
  {NullToken, Signed("K1", GoodHeader, GoodPayload),
   Signed("K3", HeaderSegment(HeaderClaims(Str("RS256"), Str("k3"))), GoodPayload),
   Signed("K2", HeaderSegment(HeaderClaims(Str("RS256"), Num(1000))), GoodPayload)}

\* no predicate of the caller's, or one that rejects
ConcurrentChecks == {<<>>, <<CustomFalse>>}

\* auth is called while another call may be in progress
BeginConcurrent(p) ==
  /\ call[p].pc = "idle"
  /\ \E token \in ConcurrentTokens, checks \in ConcurrentChecks :
       call' = [call EXCEPT ![p] = AuthBegin(ProjectId, token, checks, Steady(now, 6 + Len(checks)))]
  /\ UNCHANGED <<cache, now, published, fill, pin, pout>>

NextConcurrent ==
  \/ \E p \in Procs : BeginConcurrent(p)
  \/ \E p \in Procs : CacheGet(p)
  \/ \E p \in Procs : Fetch(p)
  \/ \E p \in Procs : ReadJson(p)
  \/ \E p \in Procs : CachePut(p)
  \/ \E p \in Procs : ImportKey(p)
  \/ \E p \in Procs : VerifySignature(p)
  \/ \E p \in Procs : Finish(p)
  \/ Rotate
  \/ Expire

SpecConcurrent == Init /\ [][NextConcurrent]_vars

\* the keys members a fetch response may carry whole
WholeResponses == {KeyList(KeySets[i]) : i \in 1..Len(KeySets)} \cup {NotAList}

\* C17 as claimed: under any interleaving of two calls, the cached entry is
\* absent or the whole keys member of one fetch response; a put replaces it
\* by the set the putting call fetched (last write wins); the cache changes
\* only by one call's put or by expiry; a step of one call leaves the other
\* call alone; the set a call works with is the one its own get read or its
\* own fetch returned and stays that; and a call's result is decided by its
\* token and that set alone: two calls with the same token and the same set
\* return the same result. The last part is read in the claim's favour, of
\* calls that were passed the same predicates and in which no cache or
\* network operation failed.
C17_ConcurrentCalls ==
  [][/\ cache'["google_pk"].present =>
          JsonRead(cache'["google_pk"].value) \in WholeResponses
     /\ cache' # cache =>
          \/ \E p \in Procs : call[p].pc = "put" /\ call'[p].puts = 1
          \/ cache' = [cache EXCEPT !["google_pk"] = NoEntry]
     /\ \A p \in Procs :
          /\ (call[p].pc = "put" /\ call'[p].puts = 1
                /\ call'[p].thrown # "cache.put failed")
             => /\ KvGet(cache', "google_pk") = call[p].used
                /\ call[p].used \in WholeResponses
          /\ (call[p].pc = "get" /\ call'[p].path = "hit")
             => call'[p].used = KvGet(cache, "google_pk") /\ cache' = cache
          /\ (call[p].pc = "get" /\ call'[p].path = "miss")
             => KvGet(cache, "google_pk") = Nothing
          /\ (call[p].path # "none"
                /\ call[p].pc \in {"put", "import", "verify", "done"}
                /\ call'[p].pc # "idle")
             => call'[p].used = call[p].used /\ call'[p].path = call[p].path
          /\ Done(p) /\ call'[p].pc # "idle" => call'[p] = call[p]
          /\ \A q \in Procs \ {p} : call'[p] # call[p] => call'[q] = call[q]
          /\ \A q \in Procs :
               ( /\ Done(p)' /\ Done(q)'
                 /\ call'[p].token = call'[q].token
                 /\ call'[p].checks = call'[q].checks
                 /\ call'[p].used = call'[q].used
                 /\ ~IoFailed(p)' /\ ~IoFailed(q)' )
               => call'[p].result = call'[q].result]_vars

====
